---- MODULE Spec2Model ----
(***************************************************************************)
(* Quote-to-PDF export of art-brasil: the image resolver                   *)
(* (getBase64ImageFromURL) and the document composer (generatePDF) of      *)
(* src/services/pdfService.ts, and the export handler (handleExportPDF)    *)
(* of src/App.tsx.                                                         *)
(*                                                                         *)
(* JavaScript values are tagged records: undefined, null, NaN, numbers     *)
(* (integers and the two infinities), strings (sequences of one-character  *)
(* strings), functions and objects.                                        *)
(* Lengths are whole millimetres, money is whole reais.                    *)
(***************************************************************************)
EXTENDS Integers, Sequences, FiniteSets, TLC

VARIABLES
    args,        \* per invocation: the (items, client) generatePDF is called with
    pc,          \* per invocation: position inside generatePDF
    validItems,  \* per invocation: the sanitized copy of the item list
    totalPrice,  \* per invocation: the reduced total
    imageCache,  \* per invocation: id -> resolved image or null
    promise,     \* per invocation: the resolver call of each task (0 = logo, k = item k)
    doc,         \* per invocation: the jsPDF document being built
    saved,       \* per invocation: the file handed to doc.save
    notice,      \* per invocation: the alert shown
    engine,      \* per invocation: how the rendering engine will behave
    products,    \* App state: the catalog
    budgetItems, \* App state: the cart
    clientInfo,  \* App state: the client form
    isExporting, \* App state: the in-progress flag of the export triggers
    handler,     \* per invocation: position of the handleExportPDF call that made it
    appNotice,   \* per invocation: the alert shown by handleExportPDF
    typed        \* App state: the changes typed so far into the admin panel and the client form

appVars == <<products, budgetItems, clientInfo, isExporting, handler, appNotice, typed>>

vars == <<args, pc, validItems, totalPrice, imageCache, promise, doc, saved, notice, engine,
          products, budgetItems, clientInfo, isExporting, handler, appNotice, typed>>

(***************************************************************************)
(* JavaScript values                                                       *)
(***************************************************************************)
Undef == [t |-> "undefined"]
Null == [t |-> "null"]
NaN == [t |-> "NaN"]
Num(n) == [t |-> "number", n |-> n]
PosInf == [t |-> "Infinity"]
NegInf == [t |-> "-Infinity"]
NegZero == [t |-> "-0"]
Str(s) == [t |-> "string", s |-> s]

IsStr(v) == v.t = "string"
\* a finite number
IsNum(v) == v.t \in {"number", "-0"}
IsInf(v) == v.t \in {"Infinity", "-Infinity"}

\* ToBoolean: undefined, null, NaN, 0 and "" are falsy, all else is truthy.
Truthy(v) ==
    CASE v.t = "undefined" -> FALSE
      [] v.t = "null" -> FALSE
      [] v.t = "NaN" -> FALSE
      [] v.t = "number" -> v.n # 0
      [] v.t = "-0" -> FALSE
      [] v.t = "string" -> v.s # <<>>
      [] OTHER -> TRUE

\* a || b
JsOr(a, b) == IF Truthy(a) THEN a ELSE b

\* typeof v
TypeOf(v) ==
    CASE v.t = "undefined" -> "undefined"
      [] v.t = "null" -> "object"
      [] v.t = "NaN" -> "number"
      [] v.t = "number" -> "number"
      [] v.t = "Infinity" -> "number"
      [] v.t = "-Infinity" -> "number"
      [] v.t = "-0" -> "number"
      [] v.t = "string" -> "string"
      [] v.t = "function" -> "function"
      [] OTHER -> "object"

(***************************************************************************)
(* Characters and strings                                                  *)
(***************************************************************************)
Lower == {"a","b","c","d","e","f","g","h","i","j","k","l","m",
          "n","o","p","q","r","s","t","u","v","w","x","y","z"}
Upper == {"A","B","C","D","E","F","G","H","I","J","K","L","M",
          "N","O","P","Q","R","S","T","U","V","W","X","Y","Z"}
DigitSeq == <<"0","1","2","3","4","5","6","7","8","9">>
Digit == {DigitSeq[j] : j \in 1..10}

DigitVal(c) == (CHOOSE j \in 1..10 : DigitSeq[j] = c) - 1

\* String.prototype.startsWith
StartsWith(s, p) == Len(s) >= Len(p) /\ SubSeq(s, 1, Len(p)) = p

\* String.prototype.substring(0, n)
Substring0(s, n) == IF Len(s) <= n THEN s ELSE SubSeq(s, 1, n)

RECURSIVE NatToChars(_)
NatToChars(n) ==
    IF n < 10 THEN <<DigitSeq[n + 1]>>
    ELSE NatToChars(n \div 10) \o <<DigitSeq[(n % 10) + 1]>>

\* Number::toString of an integer
IntToChars(n) == IF n < 0 THEN <<"-">> \o NatToChars(-n) ELSE NatToChars(n)

RECURSIVE CharsToNat(_)
CharsToNat(s) ==
    IF s = <<>> THEN 0
    ELSE 10 * CharsToNat(SubSeq(s, 1, Len(s) - 1)) + DigitVal(s[Len(s)])

AllDigits(s) == s # <<>> /\ \A j \in 1..Len(s) : s[j] \in Digit

InfinityChars == <<"I","n","f","i","n","i","t","y">>

\* ToString of a primitive
ToStringChars(v) ==
    CASE v.t = "undefined" -> <<"u","n","d","e","f","i","n","e","d">>
      [] v.t = "null" -> <<"n","u","l","l">>
      [] v.t = "NaN" -> <<"N","a","N">>
      [] v.t = "number" -> IntToChars(v.n)
      [] v.t = "Infinity" -> InfinityChars
      [] v.t = "-Infinity" -> <<"-">> \o InfinityChars
      [] v.t = "-0" -> <<"0">>
      [] v.t = "string" -> v.s
      [] OTHER -> <<"[","o","b","j","e","c","t"," ","O","b","j","e","c","t","]">>

HexLower == <<"0","1","2","3","4","5","6","7","8","9","a","b","c","d","e","f">>
HexUpper == <<"0","1","2","3","4","5","6","7","8","9","A","B","C","D","E","F">>

\* a digit of a literal of the given base, either case
IsRadixDigit(c, base) == \E j \in 1..base : HexLower[j] = c \/ HexUpper[j] = c

RadixDigitVal(c) == (CHOOSE j \in 1..16 : HexLower[j] = c \/ HexUpper[j] = c) - 1

RECURSIVE RadixToNat(_, _)
RadixToNat(s, base) ==
    IF s = <<>> THEN 0
    ELSE base * RadixToNat(SubSeq(s, 1, Len(s) - 1), base) + RadixDigitVal(s[Len(s)])

\* the base a literal's prefix names (0x, 0o, 0b, either case), 0 for none
RadixOf(s) ==
    IF Len(s) < 2 \/ s[1] # "0" THEN 0
    ELSE IF s[2] \in {"x", "X"} THEN 16
    ELSE IF s[2] \in {"o", "O"} THEN 8
    ELSE IF s[2] \in {"b", "B"} THEN 2
    ELSE 0

\* StringToNumber of an unsigned decimal literal: digits or Infinity
UnsignedToNumber(s) ==
    IF AllDigits(s) THEN Num(CharsToNat(s))
    ELSE IF s = InfinityChars THEN PosInf
    ELSE NaN

\* -x on numbers
Negate(x) ==
    CASE x.t = "NaN" -> NaN
      [] x.t = "Infinity" -> NegInf
      [] x.t = "-Infinity" -> PosInf
      [] x.t = "-0" -> Num(0)
      [] OTHER -> IF x.n = 0 THEN NegZero ELSE Num(0 - x.n)

\* ToNumber of a primitive; strings over digits, letters, '+', '-' and ','
\* only (no whitespace, exponent or fraction forms).  A sign goes with
\* decimal digits and Infinity only, never with a radix prefix.
ToNumber(v) ==
    CASE v.t = "undefined" -> NaN
      [] v.t = "null" -> Num(0)
      [] v.t = "NaN" -> NaN
      [] v.t = "number" -> v
      [] v.t = "Infinity" -> v
      [] v.t = "-Infinity" -> v
      [] v.t = "-0" -> v
      [] v.t = "string" ->
            IF v.s = <<>> THEN Num(0)
            ELSE IF Head(v.s) = "-" THEN Negate(UnsignedToNumber(Tail(v.s)))
            ELSE IF Head(v.s) = "+" THEN UnsignedToNumber(Tail(v.s))
            ELSE IF RadixOf(v.s) # 0
            THEN (IF Len(v.s) > 2 /\ \A j \in 3..Len(v.s) : IsRadixDigit(v.s[j], RadixOf(v.s))
                  THEN Num(RadixToNat(SubSeq(v.s, 3, Len(v.s)), RadixOf(v.s)))
                  ELSE NaN)
            ELSE UnsignedToNumber(v.s)
      [] OTHER -> NaN

IsZero(x) == x = Num(0) \/ x = NegZero

\* the sign bit of a number that is not NaN
IsNegative(x) ==
    x.t = "-Infinity" \/ x.t = "-0" \/ (x.t = "number" /\ x.n < 0)

\* x + y on numbers (NaN, the infinities, the two zeros and integers)
NumAdd(x, y) ==
    IF x.t = "NaN" \/ y.t = "NaN" THEN NaN
    ELSE IF IsInf(x) /\ IsInf(y) THEN (IF x = y THEN x ELSE NaN)
    ELSE IF IsInf(x) THEN x
    ELSE IF IsInf(y) THEN y
    ELSE IF x = NegZero THEN y
    ELSE IF y = NegZero THEN x
    ELSE Num(x.n + y.n)

\* x * y on numbers
NumMul(x, y) ==
    IF x.t = "NaN" \/ y.t = "NaN" THEN NaN
    ELSE IF IsInf(x) \/ IsInf(y)
    THEN (IF IsZero(x) \/ IsZero(y) THEN NaN
          ELSE IF IsNegative(x) = IsNegative(y) THEN PosInf ELSE NegInf)
    ELSE IF IsZero(x) \/ IsZero(y)
    THEN (IF IsNegative(x) = IsNegative(y) THEN Num(0) ELSE NegZero)
    ELSE Num(x.n * y.n)

\* x >= y on numbers that are not NaN (the two zeros compare equal)
NumGeq(x, y) ==
    IF x.t = "Infinity" \/ y.t = "-Infinity" THEN TRUE
    ELSE IF x.t = "-Infinity" \/ y.t = "Infinity" THEN FALSE
    ELSE (IF IsZero(x) THEN 0 ELSE x.n) >= (IF IsZero(y) THEN 0 ELSE y.n)

\* a + b on primitives: concatenation when either side is a string,
\* numeric addition otherwise.
JsAdd(a, b) ==
    IF IsStr(a) \/ IsStr(b) THEN Str(ToStringChars(a) \o ToStringChars(b))
    ELSE NumAdd(ToNumber(a), ToNumber(b))

(***************************************************************************)
(* Formatting                                                              *)
(***************************************************************************)
RECURSIVE GroupThousands(_)
GroupThousands(ds) ==
    IF Len(ds) <= 3 THEN ds
    ELSE GroupThousands(SubSeq(ds, 1, Len(ds) - 3)) \o <<".">>
         \o SubSeq(ds, Len(ds) - 2, Len(ds))

\* new Intl.NumberFormat('pt-BR', {style: 'currency', currency: 'BRL'}).format(v)
\* ("~" stands for the no-break space the locale puts after the symbol,
\* "oo" for the infinity sign)
FormatBRL(v) ==
    LET x == ToNumber(v)
    IN IF x.t = "NaN" THEN <<"R","$","~","N","a","N">>
       ELSE IF x.t = "Infinity" THEN <<"R","$","~","oo">>
       ELSE IF x.t = "-Infinity" THEN <<"-","R","$","~","oo">>
       ELSE IF x.t = "-0" THEN <<"-","R","$","~","0",",","0","0">>
       ELSE (IF x.n < 0 THEN <<"-">> ELSE <<>>) \o <<"R","$","~">>
            \o GroupThousands(NatToChars(IF x.n < 0 THEN -x.n ELSE x.n))
            \o <<",","0","0">>

Pad2(n) == IF n < 10 THEN <<"0">> \o NatToChars(n) ELSE NatToChars(n)

InvalidDate == [valid |-> FALSE]

IsLeap(y) == (y % 4 = 0 /\ y % 100 # 0) \/ y % 400 = 0

DaysInMonth(y, m) ==
    IF m = 2 THEN (IF IsLeap(y) THEN 29 ELSE 28)
    ELSE IF m \in {4, 6, 9, 11} THEN 30 ELSE 31

DigitsAt(s, a, b) == \A j \in a..b : s[j] \in Digit

TwoDigits(s, j) == 10 * DigitVal(s[j]) + DigitVal(s[j + 1])

\* The calendar day of year y, month m and a day number d of 1 to 32: days
\* past the end of the month run into the next month.
MakeDay(y, m, d) ==
    IF d <= DaysInMonth(y, m) THEN [valid |-> TRUE, y |-> y, m |-> m, d |-> d]
    ELSE IF m < 12 THEN [valid |-> TRUE, y |-> y, m |-> m + 1, d |-> d - DaysInMonth(y, m)]
    ELSE [valid |-> TRUE, y |-> y + 1, m |-> 1, d |-> d - DaysInMonth(y, m)]

\* new Date(s) for the date-time form YYYY-MM-DDTHH:mm:ss (local time);
\* a day of 1 to 31 is accepted in every month and 24:00:00 is the start of
\* the next day. Every other string of the bounded inputs is one no engine
\* parses.
ParseDate(s) ==
    IF /\ Len(s) = 19
       /\ DigitsAt(s, 1, 4) /\ s[5] = "-"
       /\ DigitsAt(s, 6, 7) /\ s[8] = "-"
       /\ DigitsAt(s, 9, 10) /\ s[11] = "T"
       /\ DigitsAt(s, 12, 13) /\ s[14] = ":"
       /\ DigitsAt(s, 15, 16) /\ s[17] = ":"
       /\ DigitsAt(s, 18, 19)
       /\ TwoDigits(s, 6) \in 1..12
       /\ TwoDigits(s, 9) \in 1..31
       /\ TwoDigits(s, 15) < 60 /\ TwoDigits(s, 18) < 60
       /\ \/ TwoDigits(s, 12) < 24
          \/ TwoDigits(s, 12) = 24 /\ TwoDigits(s, 15) = 0 /\ TwoDigits(s, 18) = 0
    THEN MakeDay(100 * TwoDigits(s, 1) + TwoDigits(s, 3), TwoDigits(s, 6),
                 TwoDigits(s, 9) + (IF TwoDigits(s, 12) = 24 THEN 1 ELSE 0))
    ELSE InvalidDate

\* the year as the locale prints it: the year 0 is the year 1 before the era
YearOfEra(y) == IF y <= 0 THEN 1 - y ELSE y

\* Date.prototype.toLocaleDateString('pt-BR')
ToLocaleDateString(dt) ==
    IF dt.valid
    THEN Pad2(dt.d) \o <<"/">> \o Pad2(dt.m) \o <<"/">> \o NatToChars(YearOfEra(dt.y))
    ELSE <<"I","n","v","a","l","i","d"," ","D","a","t","e">>

\* new Date(): the day the export runs
CurrentDate == [valid |-> TRUE, y |-> 2026, m |-> 10, d |-> 29]

NoonSuffix == <<"T","1","2",":","0","0",":","0","0">>

\* client.date ? new Date(client.date + 'T12:00:00').toLocaleDateString('pt-BR')
\*             : new Date().toLocaleDateString('pt-BR')
DateStr(client) ==
    IF Truthy(client.date)
    THEN ToLocaleDateString(ParseDate(JsAdd(client.date, Str(NoonSuffix)).s))
    ELSE ToLocaleDateString(CurrentDate)

BodyDefaultName == <<"C","o","n","s","u","m","i","d","o","r"," ","F","i","n","a","l">>
FileDefaultName == <<"C","l","i","e","n","t","e">>
FilePrefix == <<"O","r","c","a","m","e","n","t","o","_">>
FileExt == <<".","p","d","f">>

\* client.name || 'Consumidor Final'
BodyClientName(client) == JsOr(client.name, Str(BodyDefaultName)).s

\* the character class [^a-z0-9] under the flags gi
IsAlnum(c) == c \in Lower \cup Upper \cup Digit

\* the mutant: the characters outside the class are removed
RemoveNonAlnum(s) == SelectSeq(s, IsAlnum)

\* s.replace(/[^a-z0-9]/gi, '_')
ReplaceNonAlnum(s) == [j \in 1..Len(s) |-> IF IsAlnum(s[j]) THEN s[j] ELSE "_"]

NameCut == 30

\* the mutant: the name is not cut
CleanClientNameUncut(client) ==
    ReplaceNonAlnum(JsOr(client.name, Str(FileDefaultName)).s)

\* (client.name || 'Cliente').replace(/[^a-z0-9]/gi, '_').substring(0, 30)
CleanClientName(client) ==
    Substring0(ReplaceNonAlnum(JsOr(client.name, Str(FileDefaultName)).s), NameCut)

\* `Orcamento_${cleanClientName}.pdf`
FileName(client) == FilePrefix \o CleanClientName(client) \o FileExt

(***************************************************************************)
(* Items, client, cache                                                    *)
(***************************************************************************)
Invs == {1, 2}

Arr(a) == [t |-> "array", a |-> a]

\* a BudgetItem (src/types.ts); an absent field is Undef
\* a Product of the catalog
MkProduct(id, nome, cm, valor, imagem) ==
    [t |-> "object", id |-> id, nome |-> nome, cm |-> cm, valor |-> valor, imagem |-> imagem]

MkItem(id, nome, cm, valor, imagem, quantity, total) ==
    [t |-> "object", id |-> id, nome |-> nome, cm |-> cm, valor |-> valor,
     imagem |-> imagem, quantity |-> quantity, total |-> total]

ProtoKey == <<"_","_","p","r","o","t","o","_","_">>

\* where a cache records that its prototype was set to null
ProtoSlot == <<"[[Prototype]]">>

\* v.f: the field of an object, undefined on any other non-nullish value
Prop(v, f) == IF v.t = "object" THEN v[f] ELSE Undef

\* a[idx] of a JavaScript array (0-based; undefined outside the array)
ArrayGet(a, idx) == IF idx \in 0..(Len(a) - 1) THEN a[idx + 1] ELSE Undef

\* The members of Object.prototype, which an object literal inherits
ObjectPrototypeKeys ==
    { <<"c","o","n","s","t","r","u","c","t","o","r">>,
      <<"t","o","S","t","r","i","n","g">>,
      <<"t","o","L","o","c","a","l","e","S","t","r","i","n","g">>,
      <<"v","a","l","u","e","O","f">>,
      <<"h","a","s","O","w","n","P","r","o","p","e","r","t","y">>,
      <<"i","s","P","r","o","t","o","t","y","p","e","O","f">>,
      <<"p","r","o","p","e","r","t","y","I","s","E","n","u","m","e","r","a","b","l","e">>,
      <<"_","_","d","e","f","i","n","e","G","e","t","t","e","r","_","_">>,
      <<"_","_","d","e","f","i","n","e","S","e","t","t","e","r","_","_">>,
      <<"_","_","l","o","o","k","u","p","G","e","t","t","e","r","_","_">>,
      <<"_","_","l","o","o","k","u","p","S","e","t","t","e","r","_","_">>,
      ProtoKey }

\* the value of a member of Object.prototype: a function, or for __proto__
\* the prototype object itself
PrototypeMember(key) ==
    IF key = ProtoKey THEN [t |-> "prototype"] ELSE [t |-> "function", name |-> key]

\* the object was cut off from Object.prototype (its [[Prototype]] is null)
HasNullPrototype(cache) == ProtoSlot \in DOMAIN cache

\* the own properties of the cache
OwnKeys(cache) == DOMAIN cache \ {ProtoSlot}

\* imageCache[id]: the property key is the id converted to a string; a key
\* the object does not own is looked up in Object.prototype
CacheGet(cache, id) ==
    LET key == ToStringChars(id)
    IN IF key \in OwnKeys(cache) THEN cache[key]
       ELSE IF ~HasNullPrototype(cache) /\ key \in ObjectPrototypeKeys
       THEN PrototypeMember(key)
       ELSE Undef

\* imageCache[id] = v: under the key __proto__ the inherited setter runs,
\* which sets the prototype to null for null and ignores a string
CacheSet(cache, id, v) ==
    LET key == ToStringChars(id)
    IN IF key = ProtoKey /\ ~HasNullPrototype(cache) /\ key \notin OwnKeys(cache)
       THEN (IF v = Null
             THEN [k \in DOMAIN cache \cup {ProtoSlot} |->
                      IF k = ProtoSlot THEN Null ELSE cache[k]]
             ELSE cache)
       ELSE [k \in DOMAIN cache \cup {key} |-> IF k = key THEN v ELSE cache[k]]

\* {}: no own property, the prototype is Object.prototype
EmptyCache == [key \in {} |-> Null]

(***************************************************************************)
(* Image resolver: getBase64ImageFromURL                                   *)
(***************************************************************************)
HttpPrefix == <<"h","t","t","p">>

LogoUrl == Str(<<"h","t","t","p","s",":","/","/","i",".","p","o","s","t","i","m","g",".","c","c","/","d","t","s","7","T","Z","m","g","/","A","R","T","B","R","A","S","I","L",".","p","n","g">>)

\* canvas.toDataURL('image/png') of the image loaded from url
DataURL(url) == [t |-> "dataurl", of |-> url.s]

NoTask == [url |-> Undef, state |-> "none", value |-> Undef, img |-> "none", timer |-> "none"]

\* the mutant: the guard reduced to !url.startsWith('http'), which throws
\* inside the executor for a value that has no such method
ResolverWithoutTypeGuard(url) ==
    IF TypeOf(url) # "string"
    THEN [url |-> url, state |-> "rejected", value |-> Undef, img |-> "none", timer |-> "none"]
    ELSE IF ~StartsWith(url.s, HttpPrefix)
    THEN [url |-> url, state |-> "fulfilled", value |-> Null, img |-> "none", timer |-> "none"]
    ELSE [url |-> url, state |-> "pending", value |-> Undef, img |-> "loading", timer |-> "armed"]

\* the mutant: no setTimeout
ResolverWithoutTimer(url) ==
    IF ~Truthy(url) \/ TypeOf(url) # "string" \/ ~StartsWith(url.s, HttpPrefix)
    THEN [url |-> url, state |-> "fulfilled", value |-> Null, img |-> "none", timer |-> "none"]
    ELSE [url |-> url, state |-> "pending", value |-> Undef, img |-> "loading", timer |-> "none"]

\* The executor of the promise: the guard, then new Image(), img.src = url
\* and setTimeout(..., 5000). Returns the promise with its image and timer.
getBase64ImageFromURL(url) ==
    IF ~Truthy(url) \/ TypeOf(url) # "string" \/ ~StartsWith(url.s, HttpPrefix)
    THEN [url |-> url, state |-> "fulfilled", value |-> Null, img |-> "none", timer |-> "none"]
    ELSE [url |-> url, state |-> "pending", value |-> Undef, img |-> "loading", timer |-> "armed"]

\* resolve(v): settles a pending promise, does nothing to a settled one
\* the mutant: a promise whose value a later resolve replaces
ResolveAgain(p, v) == [p EXCEPT !.state = "fulfilled", !.value = v]

\* resolve(v): settles a pending promise; a no-op on a settled one
Resolve(p, v) ==
    IF p.state = "pending" THEN [p EXCEPT !.state = "fulfilled", !.value = v] ELSE p

\* what img.onload passes to resolve: the data URL, or null when there
\* is no 2d context or when drawImage / toDataURL throws (caught)
LoadOutcomes == {"encoded", "noContext", "throws"}

OnloadValue(url, outcome) == IF outcome = "encoded" THEN DataURL(url) ELSE Null

(***************************************************************************)
(* Document composer: generatePDF                                          *)
(***************************************************************************)
\* item && typeof item === 'object'
IsValidItem(item) == Truthy(item) /\ TypeOf(item) = "object"

\* the mutant: the filter reduced to item => item
SanitizeTruthyOnly(items) == SelectSeq(JsOr(items, Arr(<<>>)).a, Truthy)

\* [...(items || [])].filter(item => item && typeof item === 'object')
Sanitize(items) == SelectSeq(JsOr(items, Arr(<<>>)).a, IsValidItem)

RECURSIVE Reduce(_, _)
Reduce(items, sum) ==
    IF items = <<>> THEN sum
    ELSE Reduce(Tail(items), JsAdd(sum, JsOr(Prop(Head(items), "total"), Num(0))))

\* validItems.reduce((sum, item) => sum + (item.total || 0), 0)
TotalPrice(items) == Reduce(items, Num(0))

\* if (item && item.id && item.imagem): the resolver is called for this item
HasImageTask(item) == Truthy(item) /\ Truthy(Prop(item, "id")) /\ Truthy(Prop(item, "imagem"))

\* validItems.map(async item => ...): the resolver calls made synchronously
\* by the map, task k for item k; task 0 (the logo) is not started yet
LaunchTasks(items) ==
    [k \in 0..Len(items) |->
        IF k >= 1 /\ HasImageTask(items[k])
        THEN getBase64ImageFromURL(Prop(items[k], "imagem"))
        ELSE NoTask]

\* The continuations imageCache[item.id] = await ... of the tasks that are
\* settled in proms, run in item order from item k on.
RECURSIVE WriteSettled(_, _, _, _)
WriteSettled(cache, items, proms, k) ==
    IF k > Len(items) THEN cache
    ELSE WriteSettled(
            IF proms[k].state = "fulfilled"
            THEN CacheSet(cache, Prop(items[k], "id"), proms[k].value) ELSE cache,
            items, proms, k + 1)

\* the mutant: Promise.race in place of Promise.all
JoinedOnFirst(proms) == \E k \in DOMAIN proms : k >= 1 /\ proms[k].state # "pending"

\* every promise handed to Promise.all is settled
Joined(proms) == \A k \in DOMAIN proms : k >= 1 => proms[k].state # "pending"

Rejected(proms) == \E k \in DOMAIN proms : proms[k].state = "rejected"

Blank == [threw |-> FALSE, image |-> Undef]

\* the mutant: the hook reads the cache under the row index, not the item id
didDrawCellByRow(items, cache, rowIndex) ==
    LET currentItem == ArrayGet(items, rowIndex)
    IN IF Truthy(currentItem) /\ Truthy(Prop(currentItem, "id"))
       THEN LET base64 == CacheGet(cache, Num(rowIndex + 1))
            IN IF Truthy(base64) THEN [threw |-> FALSE, image |-> base64] ELSE Blank
       ELSE Blank

\* didDrawCell for a body cell of column 0 in row rowIndex: the image it
\* paints with doc.addImage (Undef: none), and whether it throws
didDrawCell(items, cache, rowIndex) ==
    LET currentItem == ArrayGet(items, rowIndex)
    IN IF Truthy(currentItem) /\ Truthy(Prop(currentItem, "id"))
       THEN LET base64 == CacheGet(cache, Prop(currentItem, "id"))
            IN IF Truthy(base64) THEN [threw |-> FALSE, image |-> base64] ELSE Blank
       ELSE Blank

DefaultNome == <<"P","r","o","d","u","t","o">>
CmSuffix == <<" ","c","m">>

\* one row of tableRows
TableRow(item) ==
    << <<>>,
       JsOr(Prop(item, "nome"), Str(DefaultNome)).s,
       ToStringChars(JsOr(Prop(item, "cm"), Str(<<"0">>))) \o CmSuffix,
       ToStringChars(JsOr(Prop(item, "quantity"), Num(0))),
       FormatBRL(JsOr(Prop(item, "valor"), Num(0))),
       FormatBRL(JsOr(Prop(item, "total"), Num(0))) >>

TableRows(items) == [k \in 1..Len(items) |-> TableRow(items[k])]

StartY == 65
DefaultFinalY == 150
FooterGap == 10
FooterHeight == 40
TopMargin == 20
PageHeight == 297

NoDoc ==
    [created |-> FALSE, ops |-> <<>>, logo |-> FALSE, dateStr |-> <<>>,
     clientName |-> <<>>, phone |-> <<>>, rows |-> <<>>, thumbs |-> <<>>,
     pages |-> 0, tableEndPage |-> 0, footerFrom |-> 0, footerY |-> 0,
     footerPage |-> 0, totalText |-> <<>>]

\* new jsPDF(): one empty page
NewDoc == [NoDoc EXCEPT !.created = TRUE, !.pages = 1]

\* lines 72-77: the logo is painted when it resolved; a failure of
\* doc.addImage is caught and leaves the document without logo
DrawLogo(d, base64Logo, eng) ==
    IF Truthy(base64Logo) /\ eng.failAt # "logo"
    THEN [d EXCEPT !.ops = @ \o <<"logo">>, !.logo = TRUE]
    ELSE d

\* lines 79-109: title, issue date, client block
DrawHeader(d, client) ==
    [d EXCEPT !.ops = @ \o <<"header">>,
              !.dateStr = DateStr(client),
              !.clientName = BodyClientName(client),
              !.phone = IF Truthy(client.phone) THEN client.phone.s ELSE <<>>]

\* lines 111-170: autoTable lays the rows out (eng: where the table ends)
\* and calls didDrawCell for the first cell of every body row
DrawTable(d, items, cache, eng) ==
    [d EXCEPT !.ops = @ \o <<"table">>,
              !.rows = TableRows(items),
              !.thumbs = [k \in 1..Len(items) |-> didDrawCell(items, cache, k - 1).image],
              !.pages = eng.tablePages,
              !.tableEndPage = eng.tablePages]

\* the mutant: the hook without its try/catch and its test of base64, so
\* that doc.addImage(null, ...) throws out of autoTable
HookThrowsOnNull(items, cache) ==
    \E k \in 1..Len(items) :
        Truthy(Prop(items[k], "id")) /\ ~Truthy(CacheGet(cache, Prop(items[k], "id")))

HookThrows(items, cache) ==
    \E k \in 1..Len(items) : didDrawCell(items, cache, k - 1).threw

\* doc.lastAutoTable ? doc.lastAutoTable.finalY : 150
FinalY(eng) == IF eng.lastAutoTable THEN eng.finalY ELSE DefaultFinalY

\* the mutant: the page test with >= in place of >
FooterBreaksAtOrOver(y) == y + FooterHeight >= PageHeight

\* footerY + 40 > pageHeight
FooterBreaks(y) == y + FooterHeight > PageHeight

\* lines 172-203: the footer, on a new page when it does not fit
DrawFooter(d, eng, total) ==
    LET y == FinalY(eng) + FooterGap
        brk == FooterBreaks(y)
    IN [d EXCEPT !.ops = @ \o (IF brk THEN <<"addPage">> ELSE <<>>) \o <<"footer">>,
                 !.pages = IF brk THEN @ + 1 ELSE @,
                 !.footerFrom = y,
                 !.footerY = IF brk THEN TopMargin ELSE y,
                 !.footerPage = IF brk THEN d.pages + 1 ELSE d.pages,
                 !.totalText = FormatBRL(total)]

NoFile == <<>>

\* Everything generatePDF does once the logo has settled (lines 72-207,
\* one synchronous run): the document, the file saved and where it ends.
\* eng.failAt names the stage at which the rendering engine throws; at the
\* stage of the logo the failure is caught (lines 69-77), at the others it
\* leaves generatePDF with what was drawn so far.
Render(d, items, cache, client, total, base64Logo, eng) ==
    LET d0 == DrawLogo(d, base64Logo, eng)
        d1 == DrawHeader(d0, client)
        d2 == DrawTable(d1, items, cache, eng)
        d3 == DrawFooter(d2, eng, total)
    IN IF eng.failAt = "header" THEN [doc |-> d0, saved |-> NoFile, pc |-> "failed"]
       ELSE IF eng.failAt = "table" \/ HookThrows(items, cache)
       THEN [doc |-> d1, saved |-> NoFile, pc |-> "failed"]
       ELSE IF eng.failAt = "footer" THEN [doc |-> d2, saved |-> NoFile, pc |-> "failed"]
       ELSE IF eng.failAt = "save" THEN [doc |-> d3, saved |-> NoFile, pc |-> "failed"]
       ELSE [doc |-> [d3 EXCEPT !.ops = @ \o <<"save">>],
             saved |-> FileName(client), pc |-> "saved"]

(***************************************************************************)
(* State machine                                                           *)
(***************************************************************************)
NoClient == [name |-> Undef, phone |-> Undef, date |-> Undef]
NoCall == [call |-> FALSE, items |-> Undef, client |-> NoClient]
CallOf(items, client) == [call |-> TRUE, items |-> items, client |-> client]

NoEngine == [failAt |-> "none", lastAutoTable |-> FALSE, finalY |-> 0, tablePages |-> 1]

\* the mutant: invalid entries removed from the caller's array itself
CallerItemsFilteredInPlace(items) ==
    IF items.t = "array" THEN Arr(Sanitize(items)) ELSE items

\* What generatePDF leaves in the array it was handed: line 48 spreads it
\* into a new array and filters that one; reduce, map and the row mapping
\* (lines 56, 61, 112) only read their elements.
CallerItems(items) == items

\* generatePDF(items, client) up to its first suspension (lines 46-66): the
\* sanitation, the empty-cart return, new jsPDF(), the total, the resolver
\* calls of the map, and the continuations of the calls that settled at once.
\* When nothing is left pending Promise.all resumes and the logo is requested.
Begin(i, a) ==
    /\ LET valid == Sanitize(a.items)
       IN IF Len(valid) = 0
          THEN /\ notice' = [notice EXCEPT ![i] = "emptyCart"]
               /\ pc' = [pc EXCEPT ![i] = "returned"]
               /\ UNCHANGED <<validItems, totalPrice, imageCache, promise, doc>>
          ELSE LET proms == LaunchTasks(valid)
               IN /\ validItems' = [validItems EXCEPT ![i] = valid]
                  /\ doc' = [doc EXCEPT ![i] = NewDoc]
                  /\ totalPrice' = [totalPrice EXCEPT ![i] = TotalPrice(valid)]
                  /\ imageCache' = [imageCache EXCEPT
                                      ![i] = WriteSettled(EmptyCache, valid, proms, 1)]
                  /\ promise' = [promise EXCEPT ![i] =
                        IF ~Rejected(proms) /\ Joined(proms)
                        THEN [proms EXCEPT ![0] = getBase64ImageFromURL(LogoUrl)]
                        ELSE proms]
                  /\ pc' = [pc EXCEPT ![i] =
                        IF Rejected(proms) THEN "failed"
                        ELSE IF Joined(proms) THEN "awaitLogo" ELSE "awaitItems"]
                  /\ UNCHANGED notice
    /\ args' = [args EXCEPT ![i] = [a EXCEPT !.items = CallerItems(a.items)]]
    /\ UNCHANGED <<saved, engine>>

\* a direct call generatePDF(items, client)
Call(i) ==
    /\ pc[i] = "idle"
    /\ args[i].call
    /\ Begin(i, args[i])
    /\ UNCHANGED appVars

\* the mutant: one cache for the module, written by every invocation
CacheAfterShared(i, id, v) == [j \in Invs |-> CacheSet(imageCache[j], id, v)]

\* imageCache[item.id] = ... in invocation i: imageCache is a const of the
\* call (line 59), so only the cache of i changes
CacheAfter(i, id, v) == [imageCache EXCEPT ![i] = CacheSet(@, id, v)]

\* An event of task k of invocation i has turned its promise into p2. If
\* that settled the promise, the code waiting on it runs before any other
\* event: for an item, the cache write and, when it was the last one, the
\* resumption after Promise.all with the logo request (lines 63-71); for
\* the logo, the rest of generatePDF (lines 72-207).
Continue(i, k, p2) ==
    LET p == promise[i][k]
        proms == [promise[i] EXCEPT ![k] = p2]
    IN IF ~(p.state = "pending" /\ p2.state = "fulfilled")
       THEN /\ promise' = [promise EXCEPT ![i] = proms]
            /\ UNCHANGED <<pc, imageCache, doc, saved>>
       ELSE IF k >= 1
       THEN LET resume == pc[i] = "awaitItems" /\ Joined(proms)
            IN /\ imageCache' = CacheAfter(i, Prop(validItems[i][k], "id"), p2.value)
               /\ promise' = [promise EXCEPT ![i] =
                      IF resume THEN [proms EXCEPT ![0] = getBase64ImageFromURL(LogoUrl)]
                      ELSE proms]
               /\ pc' = [pc EXCEPT ![i] = IF resume THEN "awaitLogo" ELSE @]
               /\ UNCHANGED <<doc, saved>>
       ELSE \E r \in {Render(doc[i], validItems[i], imageCache[i], args[i].client,
                             totalPrice[i], p2.value, engine[i])} :
               /\ promise' = [promise EXCEPT ![i] = proms]
               /\ doc' = [doc EXCEPT ![i] = r.doc]
               /\ saved' = [saved EXCEPT ![i] = r.saved]
               /\ pc' = [pc EXCEPT ![i] = r.pc]
               /\ UNCHANGED imageCache

ExportErrorText == "exportError"

\* the mutant: the alert of the catch block moved to the finally block
ExportNoticeInFinally(outcome) == ExportErrorText

\* App.tsx lines 80-82: the catch block alerts when generatePDF rejected
ExportNotice(outcome) == IF outcome = "failed" THEN ExportErrorText ELSE "none"

\* the mutant: the flag reset at the end of the try block, not in finally
FlagAfterWithoutFinally(outcome) == outcome = "failed"

\* App.tsx lines 83-85: finally { setIsExporting(false) }
FlagAfter(outcome) == FALSE

Completed(p) == p \in {"saved", "returned", "failed"}

\* The rest of handleExportPDF (App.tsx lines 80-85), run when the promise
\* of generatePDF settles: pc'[i] is where generatePDF has got to.
Settle(i) ==
    /\ handler' = [handler EXCEPT ![i] = "done"]
    /\ appNotice' = [appNotice EXCEPT ![i] = ExportNotice(pc'[i])]
    /\ isExporting' = FlagAfter(pc'[i])
    /\ UNCHANGED <<products, budgetItems, clientInfo, typed>>

Finish(i) ==
    IF handler[i] = "running" /\ Completed(pc'[i]) THEN Settle(i) ELSE UNCHANGED appVars

\* img.onload (lines 17-34)
OnLoad(i, k) ==
    /\ k \in DOMAIN promise[i]
    /\ promise[i][k].img = "loading"
    /\ \E outcome \in LoadOutcomes :
          Continue(i, k, [Resolve(promise[i][k], OnloadValue(promise[i][k].url, outcome))
                            EXCEPT !.img = "loaded"])
    /\ UNCHANGED <<args, validItems, totalPrice, notice, engine>>
    /\ Finish(i)

\* img.onerror (lines 35-38)
OnError(i, k) ==
    /\ k \in DOMAIN promise[i]
    /\ promise[i][k].img = "loading"
    /\ Continue(i, k, [Resolve(promise[i][k], Null) EXCEPT !.img = "failed"])
    /\ UNCHANGED <<args, validItems, totalPrice, notice, engine>>
    /\ Finish(i)

\* the callback of setTimeout(..., 5000) (line 42)
OnTimeout(i, k) ==
    /\ k \in DOMAIN promise[i]
    /\ promise[i][k].timer = "armed"
    /\ Continue(i, k, [Resolve(promise[i][k], Null) EXCEPT !.timer = "fired"])
    /\ UNCHANGED <<args, validItems, totalPrice, notice, engine>>
    /\ Finish(i)

\* App.tsx lines 23-27: the client form as the App starts (the date field
\* holds today's date in ISO form)
ClientInfoInit ==
    [name |-> Str(<<>>), phone |-> Str(<<>>),
     date |-> Str(<<"2","0","2","6","-","1","0","-","2","9">>)]

\* handleExportPDF (App.tsx lines 72-79): the alert for an empty cart, or
\* setIsExporting(true) and the call of generatePDF with the cart and the
\* client form as they are, which runs up to its first suspension. Invocations are numbered in the order
\* in which they are made.
HandleExportPDF(i) ==
    /\ handler[i] = "idle"
    /\ pc[i] = "idle"
    /\ ~args[i].call
    /\ \A j \in Invs : j < i => handler[j] # "idle"
    /\ IF Len(budgetItems) = 0
       THEN /\ appNotice' = [appNotice EXCEPT ![i] = "emptyCart"]
            /\ handler' = [handler EXCEPT ![i] = "done"]
            /\ UNCHANGED <<args, pc, validItems, totalPrice, imageCache, promise, doc,
                           saved, notice, engine, isExporting>>
       ELSE /\ Begin(i, CallOf(Arr(budgetItems), clientInfo))
            /\ IF Completed(pc'[i])
               THEN /\ handler' = [handler EXCEPT ![i] = "done"]
                    /\ appNotice' = [appNotice EXCEPT ![i] = ExportNotice(pc'[i])]
                    /\ isExporting' = FlagAfter(pc'[i])
               ELSE /\ handler' = [handler EXCEPT ![i] = "running"]
                    /\ isExporting' = TRUE
                    /\ UNCHANGED appNotice
    /\ UNCHANGED <<products, budgetItems, clientInfo, typed>>

\* the mutant: buttons disabled on an empty cart only
ClickExportIgnoringFlag(i) ==
    /\ ~(Len(budgetItems) = 0)
    /\ HandleExportPDF(i)

\* A click on one of the two export buttons (App.tsx lines 191-198 and
\* 321-327), which are disabled while the cart is empty or an export runs
ClickExport(i) ==
    /\ ~(Len(budgetItems) = 0 \/ isExporting)
    /\ HandleExportPDF(i)

\* a === b on primitives
StrictEq(a, b) == (a = b /\ a # NaN) \/ (IsZero(a) /\ IsZero(b))

\* a * b
JsMul(a, b) == NumMul(ToNumber(a), ToNumber(b))

\* Math.max(a, b)
MathMax(a, b) ==
    LET x == ToNumber(a)
        y == ToNumber(b)
    IN IF x.t = "NaN" \/ y.t = "NaN" THEN NaN
       ELSE IF IsZero(x) /\ IsZero(y) THEN (IF x = NegZero /\ y = NegZero THEN NegZero ELSE Num(0))
       ELSE IF NumGeq(x, y) THEN x ELSE y

\* the mutant: a second click on a product appends a second row
addItemAlwaysAppends(prev, product) ==
    Append(prev, MkItem(product.id, product.nome, product.cm, product.valor,
                        product.imagem, Num(1), product.valor))

\* the updater of addItem (App.tsx lines 43-53)
addItem(prev, product) ==
    IF \E k \in 1..Len(prev) : StrictEq(prev[k].id, product.id)
    THEN [k \in 1..Len(prev) |->
            IF StrictEq(prev[k].id, product.id)
            THEN [prev[k] EXCEPT
                    !.quantity = JsAdd(prev[k].quantity, Num(1)),
                    !.total = JsMul(JsAdd(prev[k].quantity, Num(1)), prev[k].valor)]
            ELSE prev[k]]
    ELSE Append(prev, MkItem(product.id, product.nome, product.cm, product.valor,
                             product.imagem, Num(1), product.valor))

\* the filter of removeItem and of handleDeleteProduct (lines 57, 98, 99)
RECURSIVE WithoutId(_, _)
WithoutId(prev, id) ==
    IF prev = <<>> THEN <<>>
    ELSE IF StrictEq(Head(prev).id, id) THEN WithoutId(Tail(prev), id)
    ELSE <<Head(prev)>> \o WithoutId(Tail(prev), id)

\* the mutant: the quantity is not kept at 1 or more
updateQuantityUnclamped(prev, id, delta) ==
    [k \in 1..Len(prev) |->
        IF StrictEq(prev[k].id, id)
        THEN [prev[k] EXCEPT
                !.quantity = JsAdd(prev[k].quantity, delta),
                !.total = JsMul(JsAdd(prev[k].quantity, delta), prev[k].valor)]
        ELSE prev[k]]

\* the updater of updateQuantity (App.tsx lines 61-67)
updateQuantity(prev, id, delta) ==
    [k \in 1..Len(prev) |->
        IF StrictEq(prev[k].id, id)
        THEN LET newQty == MathMax(Num(1), JsAdd(prev[k].quantity, delta))
             IN [prev[k] EXCEPT !.quantity = newQty, !.total = JsMul(newQty, prev[k].valor)]
        ELSE prev[k]]

\* the updater of handleUpdateProduct (App.tsx line 93): { ...p, ...updates }
handleUpdateProduct(prev, id, updates) ==
    [k \in 1..Len(prev) |->
        IF StrictEq(prev[k].id, id)
        THEN [f \in DOMAIN prev[k] |-> IF f \in DOMAIN updates THEN updates[f] ELSE prev[k][f]]
        ELSE prev[k]]

\* the mutant: an export under way sees the cart as it is now
HeldItemsAliased(held, cart) == cart

\* The items an export under way holds, after the cart has become cart:
\* every updater returns a new array and new objects ({ ...item }, map,
\* filter, spread), so the array and the objects handed to generatePDF
\* stay as they were.
HeldItems(held, cart) == held

MaxQty == 2

\* A step of the cart to the new cart: the frame of the four cart actions
CartBecomes(cart) ==
    /\ \A k \in 1..Len(cart) : cart[k].quantity.n <= MaxQty
    /\ budgetItems' = cart
    /\ validItems' = [i \in Invs |->
            IF handler[i] = "running" THEN HeldItems(validItems[i], cart)
            ELSE validItems[i]]
    /\ UNCHANGED <<args, pc, totalPrice, imageCache, promise, doc, saved, notice, engine,
                   clientInfo, isExporting, handler, appNotice, typed>>

\* a click on a product of the catalog (App.tsx line 242)
AddItem ==
    /\ \E k \in 1..Len(products) : CartBecomes(addItem(budgetItems, products[k]))
    /\ UNCHANGED products

\* a click on the trash button of a cart row (App.tsx line 311)
RemoveItem ==
    /\ \E k \in 1..Len(budgetItems) : CartBecomes(WithoutId(budgetItems, budgetItems[k].id))
    /\ UNCHANGED products

\* a click on the minus or plus button of a cart row (App.tsx lines 307, 309)
UpdateQuantity ==
    /\ \E k \in 1..Len(budgetItems) : \E delta \in {0 - 1, 1} :
          CartBecomes(updateQuantity(budgetItems, budgetItems[k].id, Num(delta)))
    /\ UNCHANGED products

\* The catalog the App starts with (./data): one product with an image,
\* one without
InitialProducts ==
    << MkProduct(Num(1), Str(<<"S","a","n","t","o">>), Str(<<"2","0">>), Num(10),
                 Str(<<"h","t","t","p",":","/","/","a">>)),
       MkProduct(Num(2), Str(<<"S","a","n","t","o">>), Str(<<"2","0">>), Num(5), Undef) >>

\* the texts the price field of the admin panel may hold: a price, nothing
PriceTyped == {Str(<<"1","2">>), Str(<<>>)}

RECURSIVE DigitPrefix(_)
\* the digits a string begins with
DigitPrefix(s) ==
    IF s # <<>> /\ Head(s) \in Digit THEN <<Head(s)>> \o DigitPrefix(Tail(s)) ELSE <<>>

\* parseFloat of a string without whitespace, fraction or exponent: the
\* number its leading sign and digits (or the word Infinity) spell, NaN when
\* it begins otherwise
ParseFloat(v) ==
    LET signed == v.s # <<>> /\ Head(v.s) \in {"+", "-"}
        rest == IF signed THEN Tail(v.s) ELSE v.s
        ds == DigitPrefix(rest)
        x == IF StartsWith(rest, InfinityChars) THEN PosInf
             ELSE IF ds = <<>> THEN NaN
             ELSE Num(CharsToNat(ds))
    IN IF signed /\ Head(v.s) = "-" THEN Negate(x) ELSE x

\* What the text fields of a row of the admin panel hand to
\* handleUpdateProduct (App.tsx lines 389, 397, 403): { nome }, { imagem },
\* { cm } with the text typed
TextUpdates ==
    { [nome |-> Str(<<"A","n","j","o">>)],
      [imagem |-> Str(<<"h","t","t","p","s",":","/","/","b">>)],
      [cm |-> Str(<<"3","0">>)] }

\* the texts typed into the two fields of the client form
ClientTyped ==
    { [name |-> Str(<<"A","n","a">>)], [phone |-> Str(<<"9","9">>)] }

\* the changes typed into the admin panel and the client form that are
\* followed
MaxTyped == 1

\* the catalog changes; the cart, the client form and the exports do not
CatalogBecomes(catalog) ==
    /\ products' = catalog
    /\ UNCHANGED <<args, pc, validItems, totalPrice, imageCache, promise, doc, saved,
                   notice, engine, budgetItems, clientInfo, isExporting, handler,
                   appNotice>>

\* A change of a field of a product in the admin panel (App.tsx lines
\* 389-408)
Edit(id, updates) ==
    /\ typed < MaxTyped
    /\ typed' = typed + 1
    /\ CatalogBecomes(handleUpdateProduct(products, id, updates))

\* an edit of a product's price (App.tsx line 408): parseFloat(...) || 0
EditPrice ==
    \E k \in 1..Len(products) : \E text \in PriceTyped :
        Edit(products[k].id, [valor |-> JsOr(ParseFloat(text), Num(0))])

\* an edit of a product's name, image link or size (App.tsx lines 389, 397,
\* 403)
EditText ==
    \E k \in 1..Len(products) : \E u \in TextUpdates :
        Edit(products[k].id, u)

RECURSIVE MaxId(_)
\* Math.max(...products.map(p => p.id)) of a catalog that is not empty
MaxId(prev) ==
    IF Len(prev) = 1 THEN ToNumber(prev[1].id)
    ELSE MathMax(prev[1].id, MaxId(Tail(prev)))

\* the product handleAddProduct makes (App.tsx lines 104-111)
NewProduct(prev) ==
    MkProduct(IF Len(prev) > 0 THEN JsAdd(MaxId(prev), Num(1)) ELSE Num(1),
              Str(<<"N","o","v","o"," ","P","r","o","d","u","t","o">>),
              Str(<<"2","0">>), Num(0), Str(<<>>))

MaxProducts == 3

MaxProductId == 3

\* the button "Novo Produto" (App.tsx lines 103-113): the new product goes
\* to the head of the catalog
HandleAddProduct ==
    /\ Len(products) < MaxProducts
    /\ NewProduct(products).id.n <= MaxProductId
    /\ CatalogBecomes(<<NewProduct(products)>> \o products)
    /\ UNCHANGED typed

\* handleResetData, confirmed (App.tsx lines 115-120)
HandleResetData == CatalogBecomes(InitialProducts) /\ UNCHANGED typed

\* The files handed to importJSON, by what JSON.parse makes of their text:
\* an array of products (one with the same id twice, an empty one), a value
\* that is no array, or a syntax error
ImportFiles ==
    { [ok |-> TRUE, value |-> Arr(<<>>)],
      [ok |-> TRUE, value |-> Arr([InitialProducts EXCEPT ![2].id = Num(1)])],
      [ok |-> TRUE, value |-> Null],
      [ok |-> FALSE, value |-> Undef] }

\* reader.onload of importJSON (App.tsx lines 139-152): an array replaces
\* the catalog, whatever it holds; anything else leaves the catalog as it
\* is (each of the three cases ends with an alert)
ImportJSON ==
    /\ \E file \in ImportFiles :
          IF file.ok /\ file.value.t = "array"
          THEN CatalogBecomes(file.value.a)
          ELSE CatalogBecomes(products)
    /\ UNCHANGED typed

\* handleDeleteProduct, confirmed (App.tsx lines 96-101)
HandleDeleteProduct ==
    \E k \in 1..Len(products) :
        /\ products' = WithoutId(products, products[k].id)
        /\ CartBecomes(WithoutId(budgetItems, products[k].id))

\* setClientInfo(prev => ({ ...prev, name })) and ({ ...prev, phone })
\* (App.tsx lines 272 and 279)
SetClientInfo ==
    /\ \E u \in ClientTyped :
          clientInfo' = [f \in DOMAIN clientInfo |->
                            IF f \in DOMAIN u THEN u[f] ELSE clientInfo[f]]
    /\ typed < MaxTyped
    /\ typed' = typed + 1
    /\ UNCHANGED <<args, pc, validItems, totalPrice, imageCache, promise, doc, saved,
                   notice, engine, products, budgetItems, isExporting,
                   handler, appNotice>>

MaxItems == 2

Next ==
    \E i \in Invs :
        \/ Call(i)
        \/ \E k \in 0..MaxItems : OnLoad(i, k)
        \/ \E k \in 0..MaxItems : OnError(i, k)
        \/ \E k \in 0..MaxItems : OnTimeout(i, k)

\* the state before any call: invocation 1 is about to be made with one of
\* calls and meets an engine of engines; invocation 2 is not made
InitWith(calls, engines) ==
    /\ args \in {[i \in Invs |-> IF i = 1 THEN c ELSE NoCall] : c \in calls}
    /\ engine \in {[i \in Invs |-> IF i = 1 THEN e ELSE NoEngine] : e \in engines}
    /\ pc = [i \in Invs |-> "idle"]
    /\ validItems = [i \in Invs |-> <<>>]
    /\ totalPrice = [i \in Invs |-> Num(0)]
    /\ imageCache = [i \in Invs |-> EmptyCache]
    /\ promise = [i \in Invs |-> [k \in 0..0 |-> NoTask]]
    /\ doc = [i \in Invs |-> NoDoc]
    /\ saved = [i \in Invs |-> NoFile]
    /\ notice = [i \in Invs |-> "none"]
    /\ products = InitialProducts
    /\ budgetItems = <<>>
    /\ clientInfo = ClientInfoInit
    /\ isExporting = FALSE
    /\ handler = [i \in Invs |-> "idle"]
    /\ appNotice = [i \in Invs |-> "none"]
    /\ typed = 0

(***************************************************************************)
(* Inputs                                                                  *)
(***************************************************************************)
RECURSIVE SeqsUpTo(_, _)
SeqsUpTo(S, n) ==
    IF n = 0 THEN {<<>>}
    ELSE LET shorter == SeqsUpTo(S, n - 1)
         IN shorter \cup {Append(q, x) : q \in {r \in shorter : Len(r) = n - 1}, x \in S}

UrlA == Str(<<"h","t","t","p",":","/","/","a">>)
UrlB == Str(<<"h","t","t","p","s",":","/","/","b">>)
UrlHttpx == Str(<<"h","t","t","p","x">>)
UrlRelative == Str(<<"a",".","p","n","g">>)

ItemOf(id, imagem, total) ==
    MkItem(id, Str(<<"S","a","n","t","o">>), Str(<<"2","0">>), total, imagem, Num(1), total)

ItemPool ==
    { ItemOf(Num(1), UrlA, Num(10)),
      ItemOf(Num(2), Undef, Num(5)),
      ItemOf(Num(1), UrlB, Num(7)),
      ItemOf(Num(0), UrlB, Num(3)),
      ItemOf(Num(3), Num(5), Num(2)),
      ItemOf(Num(4), UrlHttpx, Num(1)),
      ItemOf(Num(5), UrlRelative, Num(4)) }

NotItems == {Null, Num(7)}

ItemLists == {Null, Undef} \cup {Arr(q) : q \in SeqsUpTo(ItemPool \cup NotItems, MaxItems)}

ClientAna ==
    [name |-> Str(<<"A","n","a">>), phone |-> Str(<<"9","9">>),
     date |-> Str(<<"2","0","2","4","-","0","3","-","0","5">>)]

EngineOk == [failAt |-> "none", lastAutoTable |-> TRUE, finalY |-> 109, tablePages |-> 1]

Init == InitWith({CallOf(l, ClientAna) : l \in ItemLists}, {EngineOk})

Spec == Init /\ [][Next]_vars

\* Items whose id is a string that names a member of Object.prototype,
\* beside an item with a numeric id
KeyPool ==
    { ItemOf(Str(<<"c","o","n","s","t","r","u","c","t","o","r">>), Undef, Num(5)),
      ItemOf(Str(<<"t","o","S","t","r","i","n","g">>), UrlB, Num(7)),
      ItemOf(Str(ProtoKey), UrlA, Num(10)),
      ItemOf(Num(1), UrlA, Num(10)) }

MaxKeyItems == 2

InitKeys ==
    InitWith({CallOf(Arr(q), ClientAna) : q \in SeqsUpTo(KeyPool, MaxKeyItems)}, {EngineOk})

SpecKeys == InitKeys /\ [][Next]_vars

\* a timer callback that is due, or a call that was made, is run
TimerOrCall == \E i \in Invs : Call(i) \/ \E k \in 0..MaxItems : OnTimeout(i, k)

LivePool ==
    { ItemOf(Num(1), UrlA, Num(10)),
      ItemOf(Num(2), Undef, Num(5)),
      ItemOf(Num(3), UrlB, Num(7)),
      ItemOf(Num(4), UrlHttpx, Num(1)) }

MaxLiveItems == 1

InitLive ==
    InitWith({CallOf(Arr(q), ClientAna) : q \in SeqsUpTo(LivePool, MaxLiveItems)}, {EngineOk})

\* The load and error events of an image may never come; timers fire.
SpecLive == InitLive /\ [][Next]_vars /\ WF_vars(TimerOrCall)

\* Inputs for the total: items without image whose total field is a
\* number, an infinity, missing, null, NaN or a string
TotalVals ==
    { Num(0), Num(5), Num(1200), Num(0 - 3), Undef, Null, NaN, PosInf,
      Str(<<>>), Str(<<"a","b","c">>), Str(InfinityChars),
      Str(<<"-","0">>), Str(<<"0","b","1","1">>) }

MaxTotalItems == 2

TotalLists ==
    {Arr(q) : q \in SeqsUpTo({ItemOf(Num(2), Undef, v) : v \in TotalVals}, MaxTotalItems)}

InitTotal == InitWith({CallOf(l, ClientAna) : l \in TotalLists}, {EngineOk})

SpecTotal == InitTotal /\ [][Next]_vars

\* Inputs for the client block and the file name: names over a few
\* characters, short and around the length where the name is cut
NameChars == {"a", "Z", "7", " ", "ã"}

MaxNameTail == 2

RECURSIVE Repeat(_, _)
Repeat(c, n) == IF n = 0 THEN <<>> ELSE <<c>> \o Repeat(c, n - 1)

NameInputs ==
    {Undef, Null}
    \cup {Str(Repeat("x", n) \o tl) :
            n \in {0, NameCut - 2, NameCut - 1}, tl \in SeqsUpTo(NameChars, MaxNameTail)}

DateInputs ==
    { Undef, Null, Str(<<>>),
      Str(<<"2","0","2","4","-","0","3","-","0","5">>), Str(<<"2","0","2","3","-","1","2","-","3","1">>), Str(<<"2","0","2","4","-","0","2","-","3","0">>), Str(<<"2","0","2","3","-","1","2","-","3","2">>), Str(<<"0","0","0","0","-","0","1","-","0","1">>), Str(<<"a","b","c">>), Str(<<"2","0","2","4","-","1","3","-","0","5">>), Str(<<"0","5","/","0","3","/","2","0","2","4">>) }

Clients ==
    {[ClientAna EXCEPT !.name = n] : n \in NameInputs}
    \cup {[ClientAna EXCEPT !.date = d, !.phone = ph] : d \in DateInputs, ph \in {Undef, Str(<<"9">>)}}

OneItem == Arr(<<ItemOf(Num(2), Undef, Num(5))>>)

InitClient == InitWith({CallOf(OneItem, c) : c \in Clients}, {EngineOk})

SpecClient == InitClient /\ [][Next]_vars

\* Inputs for the footer: the table may end anywhere a row of the minimum
\* height can end, on any of a few pages, and autoTable may or may not
\* have left doc.lastAutoTable
MinCellHeight == 22

MaxTablePages == 2

LayoutEngines ==
    {[failAt |-> "none", lastAutoTable |-> TRUE, finalY |-> y, tablePages |-> n] :
        y \in (StartY + MinCellHeight)..(PageHeight - 1), n \in 1..MaxTablePages}
    \cup {[failAt |-> "none", lastAutoTable |-> FALSE, finalY |-> 0, tablePages |-> n] :
        n \in 1..MaxTablePages}

InitLayout == InitWith({CallOf(OneItem, ClientAna)}, LayoutEngines)

SpecLayout == InitLayout /\ [][Next]_vars

\* Direct calls met by an engine that may throw at any of its stages,
\* with lists that mix items and entries that are not objects
FailStages == {"none", "logo", "header", "table", "footer", "save"}

FailEngines == {[EngineOk EXCEPT !.failAt = f] : f \in FailStages}

FailPool == {ItemOf(Num(1), UrlA, Num(10)), ItemOf(Num(2), Undef, Num(5))}

MaxFailItems == 2

FailLists == {Null} \cup {Arr(q) : q \in SeqsUpTo(FailPool \cup NotItems, MaxFailItems)}

InitFail == InitWith({CallOf(l, ClientAna) : l \in FailLists}, FailEngines)

SpecFail == InitFail /\ [][Next]_vars

\* Two invocations that overlap: both calls are made, each with one of
\* pairs (the two argument lists), and their events interleave
InitPairWith(pairs, engines) ==
    /\ args \in {[i \in Invs |-> p[i]] : p \in pairs}
    /\ engine \in {[i \in Invs |-> e] : e \in engines}
    /\ pc = [i \in Invs |-> "idle"]
    /\ validItems = [i \in Invs |-> <<>>]
    /\ totalPrice = [i \in Invs |-> Num(0)]
    /\ imageCache = [i \in Invs |-> EmptyCache]
    /\ promise = [i \in Invs |-> [k \in 0..0 |-> NoTask]]
    /\ doc = [i \in Invs |-> NoDoc]
    /\ saved = [i \in Invs |-> NoFile]
    /\ notice = [i \in Invs |-> "none"]
    /\ products = InitialProducts
    /\ budgetItems = <<>>
    /\ clientInfo = ClientInfoInit
    /\ isExporting = FALSE
    /\ handler = [i \in Invs |-> "idle"]
    /\ appNotice = [i \in Invs |-> "none"]
    /\ typed = 0

\* the same call made twice: one item with an image, one without, and two
\* items that carry the same id with different images
TwiceLists ==
    { <<ItemOf(Num(1), UrlA, Num(10))>>,
      <<ItemOf(Num(2), Undef, Num(5))>>,
      <<ItemOf(Num(1), UrlA, Num(10)), ItemOf(Num(1), UrlB, Num(7))>> }

TwiceCalls == {CallOf(Arr(q), ClientAna) : q \in TwiceLists}

InitTwice == InitPairWith({<<c, c>> : c \in TwiceCalls}, {EngineOk})

SpecTwice == InitTwice /\ [][Next]_vars

\* two overlapping calls with lists that use the same id for different
\* images, or have no image
PairLists ==
    { <<ItemOf(Num(1), UrlA, Num(10))>>,
      <<ItemOf(Num(1), UrlB, Num(7))>>,
      <<ItemOf(Num(2), Undef, Num(5))>> }

PairCalls == {CallOf(Arr(q), ClientAna) : q \in PairLists}

InitPair == InitPairWith(PairCalls \X PairCalls, {EngineOk})

SpecPair == InitPair /\ [][Next]_vars

\* Direct calls whose termination is at stake: an empty list, one item
\* with or without image under every engine, and two images that may both
\* hang
LiveFailCalls ==
    {CallOf(Arr(q), ClientAna) :
        q \in {<<>>, <<ItemOf(Num(1), UrlA, Num(10))>>, <<ItemOf(Num(2), Undef, Num(5))>>}}

LiveHangCalls ==
    {CallOf(Arr(<<ItemOf(Num(1), UrlA, Num(10)), ItemOf(Num(3), UrlB, Num(7))>>), ClientAna)}

InitLiveFail ==
    \/ InitWith(LiveFailCalls, FailEngines)
    \/ InitWith(LiveHangCalls, {EngineOk})

\* The load and error events of an image may never come; timers fire.
SpecLiveFail == InitLiveFail /\ [][Next]_vars /\ WF_vars(TimerOrCall)

\* Exports made through the App: the cart holds items of distinct ids
\* whose total is quantity x price; the rendering engine may throw at
\* any of its stages
AppPool == {ItemOf(Num(1), UrlA, Num(10)), ItemOf(Num(2), Undef, Num(5))}

MaxCartItems == 1

Carts ==
    {q \in SeqsUpTo(AppPool, MaxCartItems) :
        \A j, k \in 1..Len(q) : j # k => q[j].id # q[k].id}

\* The catalogs an earlier session may have left in localStorage (App.tsx
\* lines 31-33): none, the shipped one with a price changed, an imported
\* one with the same id twice, an empty one
StoredCatalogs ==
    { InitialProducts,
      [InitialProducts EXCEPT ![1].valor = Num(12)],
      [InitialProducts EXCEPT ![2].id = Num(1)],
      <<>> }

\* The App as it starts (App.tsx lines 14-27): the catalog is the stored
\* one when there is one, the cart holds one of carts (empty in the App
\* itself), the client form is empty
InitAppWith(carts, engines, catalogs) ==
    /\ args = [i \in Invs |-> NoCall]
    /\ engine \in engines
    /\ pc = [i \in Invs |-> "idle"]
    /\ validItems = [i \in Invs |-> <<>>]
    /\ totalPrice = [i \in Invs |-> Num(0)]
    /\ imageCache = [i \in Invs |-> EmptyCache]
    /\ promise = [i \in Invs |-> [k \in 0..0 |-> NoTask]]
    /\ doc = [i \in Invs |-> NoDoc]
    /\ saved = [i \in Invs |-> NoFile]
    /\ notice = [i \in Invs |-> "none"]
    /\ products \in catalogs
    /\ budgetItems \in carts
    /\ clientInfo = ClientInfoInit
    /\ isExporting = FALSE
    /\ handler = [i \in Invs |-> "idle"]
    /\ appNotice = [i \in Invs |-> "none"]
    /\ typed = 0

InitApp == InitAppWith(Carts, [Invs -> FailEngines], {InitialProducts})

\* handleExportPDF called whether or not the buttons are enabled
NextApp ==
    \E i \in Invs :
        \/ HandleExportPDF(i)
        \/ \E k \in 0..MaxItems : OnLoad(i, k)
        \/ \E k \in 0..MaxItems : OnError(i, k)
        \/ \E k \in 0..MaxItems : OnTimeout(i, k)

SpecApp == InitApp /\ [][NextApp]_vars

\* handleExportPDF reached through the export buttons only
NextUI ==
    \E i \in Invs :
        \/ ClickExport(i)
        \/ \E k \in 0..MaxItems : OnLoad(i, k)
        \/ \E k \in 0..MaxItems : OnError(i, k)
        \/ \E k \in 0..MaxItems : OnTimeout(i, k)

TimerFires == \E i \in Invs : \E k \in 0..MaxItems : OnTimeout(i, k)

\* an empty cart, a cart with an image to resolve, a cart without
UiCarts == {<<>>} \cup {<<item>> : item \in AppPool}

\* the first attempt meets any engine, a second one an engine that works
InitUI ==
    InitAppWith(UiCarts, {e \in [Invs -> FailEngines] : e[2] = EngineOk}, {InitialProducts})

\* The user may never click, images may never load or fail; timers fire.
SpecUI == InitUI /\ [][NextUI]_vars /\ WF_vars(TimerFires)

\* The cart and the catalog alone, from the App as it starts
InitCart == InitAppWith({<<>>}, {[i \in Invs |-> EngineOk]}, StoredCatalogs)

NextCart ==
    \/ AddItem
    \/ RemoveItem
    \/ UpdateQuantity
    \/ EditPrice
    \/ EditText
    \/ HandleDeleteProduct
    \/ HandleAddProduct
    \/ HandleResetData
    \/ ImportJSON

SpecCart == InitCart /\ [][NextCart]_vars

\* The cart, the catalog's products and the client form edited before,
\* while and after one export started from the buttons is under way
NextShop ==
    \/ ClickExport(1)
    \/ \E k \in 0..MaxItems : OnLoad(1, k)
    \/ \E k \in 0..MaxItems : OnError(1, k)
    \/ \E k \in 0..MaxItems : OnTimeout(1, k)
    \/ AddItem
    \/ RemoveItem
    \/ UpdateQuantity
    \/ HandleDeleteProduct
    \/ EditPrice
    \/ EditText
    \/ SetClientInfo

InitShop == InitAppWith({<<>>}, {[i \in Invs |-> EngineOk]}, {InitialProducts})

SpecShop == InitShop /\ [][NextShop]_vars

(***************************************************************************)
(* Properties                                                              *)
(***************************************************************************)
Tasks(i) == DOMAIN promise[i]

\* the list is null, undefined, empty or holds no object at all
AllInvalid(items) ==
    \/ items.t \in {"null", "undefined"}
    \/ items.t = "array" /\ \A j \in 1..Len(items.a) : items.a[j].t # "object"

\* C1: a call with a null, empty or all-invalid item list shows the
\* empty-cart notice and returns: no resolver call (so no image load), no
\* document, no file.
C1_EmptyCartAborts ==
    \A i \in Invs :
        (pc[i] # "idle" /\ AllInvalid(args[i].items)) =>
            /\ pc[i] = "returned"
            /\ notice[i] = "emptyCart"
            /\ \A k \in Tasks(i) : promise[i][k].state = "none" /\ promise[i][k].img = "none"
            /\ ~doc[i].created
            /\ saved[i] = NoFile

C1_Witness ==
    \E i \in Invs :
        /\ pc[i] = "returned"
        /\ args[i].items.t = "array"
        /\ Len(args[i].items.a) = 2
        /\ args[i].items.a[1] = Null
        /\ args[i].items.a[2] = Num(7)

\* C2: a resolver call is pending or fulfilled, never rejected, and what it
\* is fulfilled with is null or the image payload of its URL.
C2_ResolverNeverRejects ==
    \A i \in Invs : \A k \in Tasks(i) :
        /\ promise[i][k].state \in {"none", "pending", "fulfilled"}
        /\ promise[i][k].state = "fulfilled" =>
              \/ promise[i][k].value = Null
              \/ IsStr(promise[i][k].url) /\ promise[i][k].value = DataURL(promise[i][k].url)

\* one call was made with a value that is no string, another had its load
\* event end in a failure to encode, and both are fulfilled with null
C2_Witness ==
    \E i \in Invs : \E k1, k2 \in Tasks(i) :
        /\ promise[i][k1].state = "fulfilled" /\ promise[i][k1].value = Null
        /\ ~IsStr(promise[i][k1].url) /\ Truthy(promise[i][k1].url)
        /\ promise[i][k2].state = "fulfilled" /\ promise[i][k2].value = Null
        /\ promise[i][k2].img = "loaded" /\ promise[i][k2].timer = "armed"

\* C3: whether or not the hosts ever answer, every resolver call gets
\* settled: from some point on no call is pending any more.
C3_ResolverSettles ==
    <>[](\A i \in Invs : \A k \in Tasks(i) : promise[i][k].state # "pending")

\* the host never answered and the timer fulfilled the call with null
C3_Witness ==
    \E i \in Invs : \E k \in Tasks(i) :
        /\ promise[i][k].img = "loading"
        /\ promise[i][k].timer = "fired"
        /\ promise[i][k].state = "fulfilled"
        /\ promise[i][k].value = Null

HttpScheme == <<"h","t","t","p",":","/","/">>
HttpsScheme == <<"h","t","t","p","s",":","/","/">>

HasHttpScheme(url) ==
    IsStr(url) /\ (StartsWith(url.s, HttpScheme) \/ StartsWith(url.s, HttpsScheme))

\* C4: a resolver call whose value is no string, is empty or does not begin
\* with http:// or https:// is fulfilled with null at once and starts no
\* image load.
C4_OnlyHttpUrlsLoad ==
    \A i \in Invs : \A k \in Tasks(i) :
        (promise[i][k].state # "none" /\ ~HasHttpScheme(promise[i][k].url)) =>
            /\ promise[i][k].state = "fulfilled"
            /\ promise[i][k].value = Null
            /\ promise[i][k].img = "none"

\* the cache holds an image under the id of the item
HasCachedImage(cache, item) ==
    /\ ToStringChars(Prop(item, "id")) \in OwnKeys(cache)
    /\ cache[ToStringChars(Prop(item, "id"))] # Null

\* C6: once the cache is complete, the draw hook paints in a row exactly
\* when the cache holds a non-null entry for the id of that row's item, and
\* then it paints that entry; it paints nothing for a row index outside the
\* list and it never throws. The thumbnails of a saved document are these.
C6_ThumbnailIffCached ==
    \A i \in Invs :
        pc[i] \in {"awaitLogo", "saved"} =>
            /\ \A r \in (0 - 1)..(Len(validItems[i]) + 1) :
                  LET h == didDrawCell(validItems[i], imageCache[i], r)
                      inRange == r \in 0..(Len(validItems[i]) - 1)
                  IN /\ ~h.threw
                     /\ (h.image # Undef) <=>
                            (inRange /\ HasCachedImage(imageCache[i], validItems[i][r + 1]))
                     /\ (h.image # Undef) =>
                            h.image = imageCache[i][ToStringChars(validItems[i][r + 1].id)]
            /\ pc[i] = "saved" =>
                  \A r \in 1..Len(validItems[i]) :
                      (doc[i].thumbs[r] # Undef) <=>
                          HasCachedImage(imageCache[i], validItems[i][r])

\* a saved document with a painted row, a row whose image resolved to null
\* and left blank
C6_Witness ==
    \E i \in Invs :
        /\ pc[i] = "saved"
        /\ \E r1, r2 \in 1..Len(validItems[i]) :
              /\ doc[i].thumbs[r1] # Undef
              /\ doc[i].thumbs[r2] = Undef
              /\ CacheGet(imageCache[i], validItems[i][r2].id) = Null

\* the sum of the totals that are numbers, the others counting as 0
RECURSIVE NumericSum(_)
NumericSum(items) ==
    IF items = <<>> THEN Num(0)
    ELSE NumAdd(IF IsNum(Head(items).total) \/ IsInf(Head(items).total)
                THEN Head(items).total ELSE Num(0),
                NumericSum(Tail(items)))

\* C5: the total drawn in the footer is the sum of the items' total
\* fields, a missing or non-numeric total counting as 0.
C5_FooterTotalIsNumericSum ==
    \A i \in Invs :
        pc[i] = "saved" =>
            doc[i].totalText = FormatBRL(NumericSum(validItems[i]))

\* the part of the saved file name between the prefix and the extension
NamePart(i) == SubSeq(saved[i], Len(FilePrefix) + 1, Len(saved[i]) - Len(FileExt))

AsciiAlnum == Lower \cup Upper \cup Digit

\* C7 as stated: the name part holds only characters of [A-Za-z0-9], the
\* others having been removed.
C7_NamePartOnlyAlnum ==
    \A i \in Invs :
        pc[i] = "saved" => \A j \in 1..Len(NamePart(i)) : NamePart(i)[j] \in AsciiAlnum

\* C7 amended: every character of the client name outside [A-Za-z0-9] is
\* replaced by an underscore, in place: the name part holds only
\* characters of [A-Za-z0-9_] and is as long as the (cut) name.
C7_NonAlnumBecomesUnderscore ==
    \A i \in Invs :
        (pc[i] = "saved" /\ Truthy(args[i].client.name)) =>
            LET name == args[i].client.name.s
            IN /\ Len(NamePart(i)) = (IF Len(name) <= 30 THEN Len(name) ELSE 30)
               /\ \A j \in 1..Len(NamePart(i)) :
                     NamePart(i)[j] = (IF name[j] \in AsciiAlnum THEN name[j] ELSE "_")

\* a file saved for a name with a space and a letter outside ASCII
C7_Witness ==
    \E i \in Invs :
        /\ pc[i] = "saved"
        /\ args[i].client.name = Str(<<" ", "ã">>)
        /\ NamePart(i) = <<"_", "_">>

\* C8: the file is Orcamento_<name part>.pdf, the name part being the
\* first 30 characters of the sanitized client name; without a client name
\* it is 'Cliente', while the document body shows 'Consumidor Final'.
C8_FileNameForm ==
    \A i \in Invs :
        pc[i] = "saved" =>
            LET raw == IF Truthy(args[i].client.name) THEN args[i].client.name.s
                       ELSE <<"C","l","i","e","n","t","e">>
                clean == [j \in 1..Len(raw) |->
                            IF raw[j] \in AsciiAlnum THEN raw[j] ELSE "_"]
            IN /\ saved[i] = <<"O","r","c","a","m","e","n","t","o","_">>
                             \o (IF Len(clean) > 30 THEN SubSeq(clean, 1, 30) ELSE clean)
                             \o <<".","p","d","f">>
               /\ Len(NamePart(i)) <= 30
               /\ ~Truthy(args[i].client.name) =>
                     /\ NamePart(i) = <<"C","l","i","e","n","t","e">>
                     /\ doc[i].clientName = <<"C","o","n","s","u","m","i","d","o","r"," ","F","i","n","a","l">>
                     /\ NamePart(i) # doc[i].clientName

\* a file saved for a name of more than 30 characters
C8_Witness ==
    \E i \in Invs :
        /\ pc[i] = "saved"
        /\ IsStr(args[i].client.name)
        /\ Len(args[i].client.name.s) = 31
        /\ Len(NamePart(i)) = 30
        /\ NamePart(i)[30] = "_"

\* C9: with y where the footer would start below the table, the footer
\* goes to the top margin (20) of exactly one added page when y + 40
\* exceeds the page height, and otherwise to y on the page where the table
\* ended, no page being added.
C9_FooterPagination ==
    \A i \in Invs :
        pc[i] = "saved" =>
            LET y == (IF engine[i].lastAutoTable THEN engine[i].finalY ELSE 150) + 10
                added == Cardinality({j \in 1..Len(doc[i].ops) : doc[i].ops[j] = "addPage"})
            IN IF y + 40 > PageHeight
               THEN /\ added = 1
                    /\ doc[i].pages = engine[i].tablePages + 1
                    /\ doc[i].footerPage = engine[i].tablePages + 1
                    /\ doc[i].footerY = 20
               ELSE /\ added = 0
                    /\ doc[i].pages = engine[i].tablePages
                    /\ doc[i].footerPage = engine[i].tablePages
                    /\ doc[i].footerY = y

\* the table ended at 247, the last position where the footer still fits
C9_Witness ==
    \E i \in Invs :
        /\ pc[i] = "saved"
        /\ engine[i].lastAutoTable /\ engine[i].finalY = 247
        /\ doc[i].footerY = 257
        /\ doc[i].pages = engine[i].tablePages

\* C10: the issue date is the client date when it is present and can be
\* parsed, and the current date otherwise.
C10_IssueDate ==
    \A i \in Invs :
        pc[i] = "saved" =>
            LET date == args[i].client.date
                parsed == IF IsStr(date) THEN ParseDate(date.s \o NoonSuffix) ELSE InvalidDate
            IN doc[i].dateStr =
                  ToLocaleDateString(IF parsed.valid THEN parsed ELSE CurrentDate)

\* the order of the drawing steps of a complete document
FullOps(withLogo, withBreak) ==
    (IF withLogo THEN <<"logo">> ELSE <<>>) \o <<"header", "table">>
    \o (IF withBreak THEN <<"addPage">> ELSE <<>>) \o <<"footer", "save">>

\* C11: with at least one valid item and an engine that does not fail, no
\* outcome of the image resolutions aborts the export: it never fails or
\* returns early, it is past each wait as soon as the resolutions waited
\* for have settled, and it ends with header (logo only when resolved),
\* table and footer drawn and the file saved.
C11_ImageFailuresNeverAbort ==
    \A i \in Invs :
        (pc[i] # "idle" /\ ~AllInvalid(args[i].items) /\ engine[i].failAt = "none") =>
            /\ pc[i] \in {"awaitItems", "awaitLogo", "saved"}
            /\ pc[i] = "awaitItems" =>
                  \E k \in Tasks(i) : k >= 1 /\ promise[i][k].state = "pending"
            /\ pc[i] = "awaitLogo" => promise[i][0].state = "pending"
            /\ pc[i] = "saved" =>
                  /\ doc[i].ops = FullOps(Truthy(promise[i][0].value),
                                          FooterBreaks(FinalY(engine[i]) + FooterGap))
                  /\ doc[i].logo = Truthy(promise[i][0].value)
                  /\ Len(doc[i].rows) = Len(validItems[i])
                  /\ saved[i] # NoFile

\* an export saved although every resolution, the logo's too, gave null
C11_Witness ==
    \E i \in Invs :
        /\ pc[i] = "saved"
        /\ ~doc[i].logo
        /\ \E k \in Tasks(i) : k >= 1 /\ promise[i][k].state = "fulfilled"
        /\ \A k \in Tasks(i) : promise[i][k].state = "fulfilled" => promise[i][k].value = Null
        /\ \A k \in 1..Len(doc[i].thumbs) : doc[i].thumbs[k] = Undef

\* the notice an attempt has shown, from the handler or from generatePDF
Noticed(i) == appNotice[i] # "none" \/ notice[i] # "none"

\* C12: an attempt made through handleExportPDF ends in exactly one of: a
\* complete document saved (header, table, footer, then save, last), the
\* empty-cart notice, the export-error notice; a notice excludes a saved
\* file and a saved file excludes a notice.
C12_ThreeOutcomes ==
    \A i \in Invs :
        /\ saved[i] # NoFile => ~Noticed(i)
        /\ Noticed(i) => saved[i] = NoFile
        /\ ~(appNotice[i] # "none" /\ notice[i] # "none")
        /\ handler[i] = "done" =>
              \/ /\ saved[i] # NoFile
                 /\ pc[i] = "saved"
                 /\ doc[i].ops = FullOps(doc[i].logo, FALSE)
              \/ /\ saved[i] = NoFile
                 /\ "emptyCart" \in {appNotice[i], notice[i]}
                 /\ ~doc[i].created
              \/ /\ saved[i] = NoFile
                 /\ appNotice[i] = ExportErrorText
                 /\ pc[i] = "failed"

\* the three outcomes met by finished attempts: one saved, one that
\* failed in the engine
C12_Witness ==
    /\ handler[1] = "done" /\ handler[2] = "done"
    /\ pc[1] = "saved" /\ saved[1] # NoFile
    /\ pc[2] = "failed" /\ appNotice[2] = ExportErrorText /\ doc[2].ops = <<"header", "table">>

\* The rendering engine threw in export i: the export got to the stage
\* engine[i].failAt names; doc.addImage is called for the logo only when
\* the logo resolved to an image (pdfService.ts line 72).
EngineThrew(i) ==
    /\ engine[i].failAt # "none"
    /\ doc[i].created
    /\ Completed(pc[i])
    /\ engine[i].failAt = "logo" => Truthy(promise[i][0].value)

\* the flag of the export triggers: false whenever no attempt is running,
\* and every attempt that set it gets over
FlagResets ==
    /\ []((\A i \in Invs : handler[i] # "running") => ~isExporting)
    /\ (isExporting ~> ~isExporting)

\* C13 as stated: any failure of the rendering engine after the
\* precondition check reaches handleExportPDF, which shows the export-error
\* notice; and however generatePDF ends, isExporting is false again once
\* the attempt is over, and every attempt that set it does get over.
C13_AnyEngineFailurePropagates ==
    /\ [](\A i \in Invs :
            (handler[i] = "done" /\ EngineThrew(i)) =>
                pc[i] = "failed" /\ appNotice[i] = ExportErrorText)
    /\ FlagResets

\* C13 amended: a failure of the rendering engine while the header, the
\* table or the footer is drawn or the file is saved reaches
\* handleExportPDF, which shows the export-error notice and saves nothing;
\* a failure of doc.addImage for the logo is caught inside generatePDF,
\* which saves the document without logo and without notice; an attempt
\* that did not fail shows no export-error notice; and however generatePDF
\* ends (saved, empty-cart return, failure) isExporting is false again once
\* the attempt is over, and every attempt that set it does get over.
C13_FailurePropagatesAndFlagResets ==
    /\ [](\A i \in Invs :
            /\ (handler[i] = "done" /\ EngineThrew(i)) =>
                  IF engine[i].failAt = "logo"
                  THEN /\ pc[i] = "saved"
                       /\ saved[i] # NoFile
                       /\ ~doc[i].logo
                       /\ appNotice[i] = "none"
                  ELSE /\ pc[i] = "failed"
                       /\ saved[i] = NoFile
                       /\ appNotice[i] = ExportErrorText
            /\ (pc[i] = "failed" /\ handler[i] # "idle") =>
                  handler[i] = "done" /\ appNotice[i] = ExportErrorText
            /\ (handler[i] = "done" /\ Completed(pc[i]) /\ pc[i] # "failed") =>
                  appNotice[i] = "none")
    /\ FlagResets

\* an attempt whose engine threw while the table was drawn: it failed, its
\* notice is shown, nothing was saved, the flag is reset
C13_Witness ==
    \E i \in Invs :
        /\ handler[i] = "done"
        /\ EngineThrew(i)
        /\ engine[i].failAt = "table"
        /\ pc[i] = "failed"
        /\ doc[i].ops = (IF doc[i].logo THEN <<"logo">> ELSE <<>>) \o <<"header">>
        /\ saved[i] = NoFile
        /\ appNotice[i] = ExportErrorText
        /\ ~isExporting

\* C14: no step of an invocation changes the list it was called with:
\* same length, same order, same elements with the same field values,
\* whichever way the invocation ends.
C14_CallerListUnchanged ==
    [][\A i \in Invs : args[i].call => args'[i] = args[i]]_vars

\* an export saved from a list out of which an entry was dropped, the
\* caller's list still holding it
C14_Witness ==
    \E i \in Invs :
        /\ pc[i] = "saved"
        /\ args[i].items.t = "array"
        /\ Len(validItems[i]) < Len(args[i].items.a)
        /\ \E j \in 1..Len(args[i].items.a) : args[i].items.a[j] = Null

\* the two invocations got the same arguments, met the same engine and
\* every resolver call of one gave what the same call of the other gave
SameInputsAndOutcomes ==
    /\ args[1] = args[2]
    /\ engine[1] = engine[2]
    /\ Tasks(1) = Tasks(2)
    /\ \A k \in Tasks(1) :
          /\ promise[1][k].url = promise[2][k].url
          /\ promise[1][k].state = promise[2][k].state
          /\ promise[1][k].value = promise[2][k].value

\* C15: two invocations with identical items and client and identical
\* resolution outcomes save the same rows, thumbnails, total, page count
\* and footer position under the same file name.
C15_Deterministic ==
    (pc[1] = "saved" /\ pc[2] = "saved" /\ SameInputsAndOutcomes) =>
        /\ doc[1].rows = doc[2].rows
        /\ doc[1].thumbs = doc[2].thumbs
        /\ doc[1].totalText = doc[2].totalText
        /\ doc[1].pages = doc[2].pages
        /\ doc[1].footerPage = doc[2].footerPage
        /\ doc[1].footerY = doc[2].footerY
        /\ saved[1] = saved[2]

\* the entry of item k of invocation i as its own resolver call gave it
OwnEntry(i, k) ==
    IF promise[i][k].state = "fulfilled" THEN promise[i][k].value ELSE Undef

\* C16: with two invocations under way, each cache holds only what the
\* tasks of its own invocation resolved, a step that writes a cache
\* belongs to a task of that invocation, and the thumbnails and the total
\* saved by an invocation are those of its own items and resolutions.
C16_NoSharedState ==
    /\ [](\A i \in Invs :
            /\ \A key \in OwnKeys(imageCache[i]) :
                  \E k \in 1..Len(validItems[i]) :
                      /\ key = ToStringChars(validItems[i][k].id)
                      /\ promise[i][k].state = "fulfilled"
                      /\ imageCache[i][key] = promise[i][k].value
            /\ pc[i] = "saved" =>
                  /\ validItems[i] = Sanitize(args[i].items)
                  /\ doc[i].totalText = FormatBRL(TotalPrice(validItems[i]))
                  /\ \A k \in 1..Len(validItems[i]) :
                        doc[i].thumbs[k] =
                            IF Truthy(OwnEntry(i, k)) THEN OwnEntry(i, k) ELSE Undef)
    /\ [][\A i \in Invs :
            (pc[i] # "idle" /\ imageCache'[i] # imageCache[i]) =>
                \E k \in Tasks(i) : k >= 1 /\ promise[i][k].state = "pending"
                                        /\ promise'[i][k].state = "fulfilled"]_vars

\* both invocations past their join at once, holding different images
\* under the same key
C16_Witness ==
    /\ pc[1] = "awaitLogo" /\ pc[2] = "awaitLogo"
    /\ CacheGet(imageCache[1], Num(1)) = DataURL(UrlA)
    /\ CacheGet(imageCache[2], Num(1)) = DataURL(UrlB)

\* C17: the resolution of the branding image is started before the
\* invocation suspends on the item resolutions, so that all of them are
\* in flight together: while it waits for items, the logo call has been
\* made.
C17_LogoLaunchedWithItems ==
    \A i \in Invs : pc[i] = "awaitItems" => promise[i][0].state # "none"

IsPrefix(p, q) == Len(p) <= Len(q) /\ p = SubSeq(q, 1, Len(p))

PastJoin(i) == pc[i] \in {"awaitLogo", "saved", "failed"}

\* C18: nothing is drawn or saved before every item resolution of the
\* export has settled and written its entry; once the join is passed the
\* cache is not written again; header, table, footer and save happen in
\* that order.
C18_JoinOrdering ==
    /\ [](\A i \in Invs :
            /\ (doc[i].ops # <<>> \/ saved[i] # NoFile) => PastJoin(i)
            /\ PastJoin(i) =>
                  \A k \in 1..Len(validItems[i]) :
                      /\ promise[i][k].state # "pending"
                      /\ promise[i][k].state = "fulfilled" =>
                            ToStringChars(validItems[i][k].id) \in OwnKeys(imageCache[i])
            /\ IsPrefix(doc[i].ops,
                        FullOps(doc[i].logo, FooterBreaks(FinalY(engine[i]) + FooterGap))))
    /\ [][\A i \in Invs : PastJoin(i) => imageCache'[i] = imageCache[i]]_vars

\* a table drawn after two item resolutions that settled one after the
\* other, with late events of their images still to come
C18_Witness ==
    \E i \in Invs :
        /\ pc[i] = "failed"
        /\ doc[i].ops = <<"header", "table">>
        /\ Len(validItems[i]) = 2
        /\ promise[i][1].state = "fulfilled" /\ promise[i][1].value # Null
        /\ promise[i][2].state = "fulfilled" /\ promise[i][2].value = Null
        /\ promise[i][2].img = "loading"

\* C19: a resolver call settles once and its first event decides: a
\* settled call keeps its state and value through every later event; a
\* call settles with the image only in a step in which its image loads,
\* and with null in a step of its timer or of its error event.
C19_SettlesOnceFirstEventDecides ==
    [][\A i \in Invs : \A k \in Tasks(i) :
          /\ promise[i][k].state = "fulfilled" =>
                /\ promise'[i][k].state = "fulfilled"
                /\ promise'[i][k].value = promise[i][k].value
          /\ (promise[i][k].state = "pending" /\ promise'[i][k].state # "pending") =>
                /\ promise'[i][k].state = "fulfilled"
                /\ promise'[i][k].value # Null =>
                      /\ promise[i][k].img = "loading" /\ promise'[i][k].img = "loaded"
                      /\ promise'[i][k].value = DataURL(promise[i][k].url)
                /\ (promise'[i][k].timer # promise[i][k].timer
                      \/ promise'[i][k].img = "failed") => promise'[i][k].value = Null]_vars

\* one call that kept its image when its timer fired afterwards, and one
\* that kept null when its image loaded after the timer
C19_Witness ==
    \E i \in Invs : \E k1, k2 \in Tasks(i) :
        /\ IsStr(promise[i][k1].url)
        /\ promise[i][k1].value = DataURL(promise[i][k1].url)
        /\ promise[i][k1].img = "loaded" /\ promise[i][k1].timer = "fired"
        /\ promise[i][k2].state = "fulfilled" /\ promise[i][k2].value = Null
        /\ promise[i][k2].img = "loaded" /\ promise[i][k2].timer = "fired"

\* C20: past the join, the cache has an entry for exactly the items that
\* carry an id (any number, 0 included) and an image reference: for each
\* of them the resolver was called on the reference and its result is
\* stored under the id; an item without image reference has no entry.
C20_CacheEntriesForImageItems ==
    \A i \in Invs :
        PastJoin(i) =>
            \A k \in 1..Len(validItems[i]) :
                LET item == validItems[i][k]
                    key == ToStringChars(item.id)
                IN IF IsNum(item.id) /\ Truthy(item.imagem)
                   THEN /\ promise[i][k].state = "fulfilled"
                        /\ promise[i][k].url = item.imagem
                        /\ key \in OwnKeys(imageCache[i])
                   ELSE key \notin OwnKeys(imageCache[i])

\* C21: every invocation made completes, by saving, by the empty-list
\* return or by a failure of the engine, however many images never load:
\* the timers alone carry it past the join and past the wait for the logo.
C21_ExportCompletes ==
    <>[](\A i \in Invs : args[i].call => Completed(pc[i]))

\* an export saved although none of its images, the logo included, ever
\* loaded or failed: all three were given up by their timers
C21_Witness ==
    \E i \in Invs :
        /\ pc[i] = "saved"
        /\ Len(validItems[i]) = 2
        /\ \A k \in Tasks(i) :
              /\ promise[i][k].img = "loading"
              /\ promise[i][k].timer = "fired"
              /\ promise[i][k].value = Null

\* C22: whatever was added, removed, incremented or decremented, and
\* whatever prices were edited in the catalog meanwhile, every cart item
\* has a whole quantity of 1 or more and a total equal to its quantity
\* times its own price.
C22_CartInvariant ==
    \A k \in 1..Len(budgetItems) :
        LET item == budgetItems[k]
        IN /\ IsNum(item.quantity)
           /\ item.quantity # NegZero
           /\ item.quantity.n \in Nat
           /\ item.quantity.n >= 1
           /\ IsNum(item.valor)
           /\ item.total = NumMul(item.quantity, item.valor)

\* an item incremented after its product's price was edited: its total
\* is twice its own price, which is no longer the catalog's
C22_Witness ==
    \E k \in 1..Len(budgetItems) : \E j \in 1..Len(products) :
        /\ budgetItems[k].id = products[j].id
        /\ budgetItems[k].valor # products[j].valor
        /\ budgetItems[k].quantity = Num(2)
        /\ budgetItems[k].total = Num(2 * budgetItems[k].valor.n)
        /\ Len(budgetItems) = 2

\* C23: no two items of the cart have the same id; a product already in
\* the cart is incremented, not appended.
C23_UniqueIds ==
    \A j, k \in 1..Len(budgetItems) : j # k => budgetItems[j].id # budgetItems[k].id

\* a product added twice, one row of quantity 2, after the other product
\* was deleted from the catalog
C23_Witness ==
    /\ Len(budgetItems) = 1
    /\ budgetItems[1].quantity = Num(2)
    /\ Len(products) = 1
    /\ products[1].id = budgetItems[1].id

\* the cart handed to export i when it was triggered
Snapshot(i) == args[i].items.a

\* C24: an export started from the App takes the cart as it is at the
\* click and keeps it whatever happens to the cart while it waits: its
\* rows, its thumbnails and its footer total are those of that cart, the
\* total being the sum of the row totals.
C24_SnapshotConsistency ==
    /\ [](\A i \in Invs :
            (handler[i] # "idle" /\ args[i].call) =>
                /\ validItems[i] = Snapshot(i)
                /\ pc[i] = "saved" =>
                      /\ doc[i].rows = TableRows(Snapshot(i))
                      /\ doc[i].totalText = FormatBRL(NumericSum(Snapshot(i)))
                      /\ \A k \in 1..Len(Snapshot(i)) :
                            /\ doc[i].rows[k][6] = FormatBRL(Snapshot(i)[k].total)
                            /\ Truthy(Snapshot(i)[k].imagem) =>
                                  promise[i][k].url = Snapshot(i)[k].imagem
                            /\ doc[i].thumbs[k] =
                                  IF Truthy(OwnEntry(i, k)) THEN OwnEntry(i, k) ELSE Undef)
    /\ [][\A i \in Invs :
            /\ (handler[i] = "idle" /\ args'[i].call) =>
                  args'[i].items = Arr(budgetItems) /\ args'[i].client = clientInfo
            /\ args[i].call => args'[i] = args[i]]_vars

\* an export of two rows, one with its thumbnail, saved as it was
\* started, the cart having since got other quantities and totals
C24_Witness ==
    /\ pc[1] = "saved"
    /\ handler[1] = "done"
    /\ Len(Snapshot(1)) = 2
    /\ Len(budgetItems) = 2
    /\ doc[1].rows = TableRows(Snapshot(1))
    /\ doc[1].rows # TableRows(budgetItems)
    /\ \E k \in 1..2 : doc[1].thumbs[k] # Undef

\* C25: within an invocation no cache key is written by more than one
\* resolution task, so that whatever the list and the order in which the
\* resolutions complete, a thumbnail painted in a row is the image
\* resolved from that row's own image reference.
C25_OneWriterPerKey ==
    \A i \in Invs :
        /\ \A k1, k2 \in 1..Len(validItems[i]) :
              (k1 # k2 /\ k1 \in Tasks(i) /\ k2 \in Tasks(i)
                 /\ promise[i][k1].state # "none" /\ promise[i][k2].state # "none") =>
                  ToStringChars(validItems[i][k1].id) # ToStringChars(validItems[i][k2].id)
        /\ pc[i] = "saved" =>
              \A k \in 1..Len(validItems[i]) :
                  doc[i].thumbs[k] # Undef =>
                      /\ IsStr(validItems[i][k].imagem)
                      /\ doc[i].thumbs[k] = DataURL(validItems[i][k].imagem)

Running(i) == handler[i] = "running"

\* C26: through the buttons at most one export is under way: isExporting
\* is set exactly while one runs, an export starts only when the flag is
\* down and every earlier one is over, so that no two invocations of
\* generatePDF overlap and no two saves race.
C26_OneExportInFlight ==
    /\ [](/\ \A i, j \in Invs : (Running(i) /\ Running(j)) => i = j
          /\ isExporting <=> \E i \in Invs : Running(i)
          /\ \A i \in Invs : (pc[i] \in {"awaitItems", "awaitLogo"}) => Running(i))
    /\ [][\A i \in Invs :
            (handler[i] = "idle" /\ handler'[i] # "idle") =>
                /\ ~isExporting
                /\ \A j \in Invs : j # i => (pc[j] = "idle" \/ Completed(pc[j]))]_vars

\* a second export under way, started after the first was saved
C26_Witness ==
    /\ handler[1] = "done" /\ pc[1] = "saved"
    /\ Running(2) /\ pc[2] = "awaitItems"
    /\ isExporting

====
